---- MODULE Spec2Model ----
(***************************************************************************)
(* Model of maintainers/scripts/update.py: a coordinator thread (main)     *)
(* that creates one git worktree per worker, submits every package to a    *)
(* ThreadPoolExecutor, and merges the results as they complete, and the    *)
(* pool's worker threads, which run run_update_script.                     *)
(***************************************************************************)
EXTENDS Integers, Sequences, FiniteSets, TLC

\* ---------------------------------------------------------------- bounds
MaxWorkers == 2
NumPackages == 2
MaxRecords == 2

Packages == 1..NumPackages
NoPackage == 0
NoThread == -1

VARIABLES
  \* command line (lines 114-118) and the loaded package list (line 80)
  commit, keep_going, max_workers, supportedFeatures, updateScript,
  \* ThreadPoolExecutor: work queue, futures, worker threads
  queue, fstate, result, wpc, wpkg, shutdownFlag, completed,
  \* temp_dirs: worktrees and their locks; package['thread']
  worktree, locked, thread,
  \* git: index and branch of every worktree, and the main line
  staged, branchLog, mainLog, gitCalls,
  \* the coordinator: main, merge_changes, commit_changes
  pc, stack, submitted, preDone, yielded, cur, lockVar, changes, idx,
  e_stdout, exc, exitCode,
  \* what the operator sees: status lines and <pname>.log files
  report, logfile,
  \* history: update procedures started, lock operations per package, and
  \* (when recordHistory is set) the packages whose update script was
  \* running when an exception left the loop of line 102
  started, acquired, released, recordHistory, runningAtFail

cfgVars == <<commit, keep_going, max_workers, supportedFeatures, updateScript>>
poolVars == <<queue, fstate, result, wpc, wpkg, shutdownFlag, completed>>
dirVars == <<worktree, locked, thread>>
gitVars == <<staged, branchLog, mainLog, gitCalls>>
mainVars == <<pc, stack, submitted, preDone, yielded, cur, lockVar, changes,
              idx, e_stdout, exc, exitCode>>
outVars == <<report, logfile>>
histVars == <<started, acquired, released, recordHistory, runningAtFail>>
vars == <<cfgVars, poolVars, dirVars, gitVars, mainVars, outVars, histVars>>

Threads == 0..(MaxWorkers - 1)
\* thread names UpdateScriptThread_0 .. UpdateScriptThread_{N-1} (lines 16, 95)
ThreadNames == 0..(max_workers - 1)

\* ------------------------------------------------------- packages, output
Digits == <<"0", "1", "2", "3", "4", "5", "6", "7", "8", "9">>
Digit(n) == Digits[n + 1]
\* package['name']
Name(p) == "pkg" \o Digit(p)

\* the j-th Change Record a package's update script prints
Change(p, j) ==
  [attrPath |-> Name(p), oldVersion |-> Digit(j), newVersion |-> Digit(j + 1),
   files |-> {"file" \o Digit(j)}]

JsonOutput(p, n) == [parses |-> TRUE, changes |-> [j \in 1..n |-> Change(p, j)]]
Garbage == [parses |-> FALSE, changes |-> <<>>]

\* what subprocess.run hands back: a CompletedProcess, or CalledProcessError
\* (check=True) carrying the captured stdout. The stdout of a successful run
\* is read only by commit_changes (line 46), so only a package that is
\* committed gets the choice of what it printed
Outcomes(p) ==
  {[ok |-> TRUE, stdout |-> Garbage], [ok |-> FALSE, stdout |-> Garbage]}
    \cup IF commit /\ "commit" \in supportedFeatures[p]
           THEN {[ok |-> TRUE, stdout |-> JsonOutput(p, n)] : n \in 0..MaxRecords}
           ELSE {}
NoResult == [ok |-> FALSE, stdout |-> [parses |-> FALSE, changes |-> <<"none">>]]

CommitAppliesIgnoringFlag(p) == "commit" \in supportedFeatures[p]
\* commit and 'commit' in package['supportedFeatures']
CommitApplies(p) == commit /\ "commit" \in supportedFeatures[p]

CommitMessageSwapped(change) ==
  change.attrPath \o ": " \o change.newVersion \o " → " \o change.oldVersion
\* '{attrPath}: {oldVersion} → {newVersion}'.format(**change)
CommitMessage(change) ==
  change.attrPath \o ": " \o change.oldVersion \o " → " \o change.newVersion

Last(s) == s[Len(s)]

\* ------------------------------------------------------------------ Init
\* the pool, the coordinator and the repository before line 93 runs
Constructed(history) ==
  /\ queue = <<>>
  /\ fstate = [p \in Packages |-> "NONE"]
  /\ result = [p \in Packages |-> NoResult]
  /\ wpc = [w \in Threads |-> "nothread"]
  /\ wpkg = [w \in Threads |-> NoPackage]
  /\ shutdownFlag = FALSE
  /\ completed = <<>>
  /\ worktree = [w \in Threads |-> "none"]
  /\ locked = [w \in Threads |-> FALSE]
  /\ thread = [p \in Packages |-> NoThread]
  /\ staged = [w \in Threads |-> {}]
  /\ branchLog = [w \in Threads |-> <<>>]
  /\ mainLog = <<>>
  /\ gitCalls = {}
  /\ pc = "setup"
  /\ stack = 0
  /\ submitted = 0
  /\ preDone = {}
  /\ yielded = {}
  /\ cur = NoPackage
  /\ lockVar = NoThread
  /\ changes = <<>>
  /\ idx = 0
  /\ e_stdout = <<>>
  /\ exc = "none"
  /\ exitCode = -1
  /\ report = [p \in Packages |-> "none"]
  /\ logfile = [p \in Packages |-> <<>>]
  /\ started = {}
  /\ acquired = [p \in Packages |-> 0]
  /\ released = [p \in Packages |-> 0]
  /\ recordHistory = history
  /\ runningAtFail = {}

\* any flags, any pool size, any package list: package['updateScript'] is
\* the set of ways the package's update script can end
InitWith(history) ==
  /\ commit \in BOOLEAN
  /\ keep_going \in BOOLEAN
  /\ max_workers \in 1..MaxWorkers
  /\ supportedFeatures \in [Packages -> {{}, {"commit"}}]
  /\ updateScript = [p \in Packages |-> Outcomes(p)]
  /\ Constructed(history)

Init == InitWith(FALSE)
InitHistory == InitWith(TRUE)

\* the package list [a, b] with --commit and one worker: a supports commit
\* and its script prints 3 Change Records, b's script exits 1 with some output
InitExample ==
  /\ commit = TRUE
  /\ keep_going \in BOOLEAN
  /\ max_workers = 1
  /\ supportedFeatures \in {f \in [Packages -> {{}, {"commit"}}] :
                              f[1] = {"commit"}}
  /\ updateScript =
       [p \in Packages |->
          IF p = 1 THEN {[ok |-> TRUE, stdout |-> JsonOutput(1, 3)]}
          ELSE IF p = 2 THEN {[ok |-> FALSE, stdout |-> Garbage]}
          ELSE Outcomes(p)]
  /\ Constructed(FALSE)

\* ------------------------------------------------- main: setup and submit
\* line 95: stack.enter_context(make_worktree()) for i in range(max_workers);
\* make_worktree runs `git worktree add -b` (line 40), which may fail
MakeWorktree ==
  /\ pc = "setup"
  /\ commit
  /\ stack < max_workers
  /\ gitCalls' = gitCalls \cup {"worktree add"}
  /\ \E ok \in BOOLEAN :
       IF ok
         THEN /\ worktree' = [worktree EXCEPT ![stack] = "created"]
              /\ stack' = stack + 1
              /\ UNCHANGED <<pc, exc>>
         ELSE /\ exc' = "CalledProcessError"
              /\ pc' = "shutdown"
              /\ UNCHANGED <<worktree, stack>>
  /\ UNCHANGED <<cfgVars, poolVars, locked, thread, staged, branchLog, mainLog,
                 submitted, preDone, yielded, cur, lockVar, changes, idx,
                 e_stdout, exitCode, outVars, histVars>>

SetupCompleteEarly == pc = "setup"
\* lines 94-97: temp_dirs is complete (or {} without --commit)
SetupComplete == pc = "setup" /\ (commit => stack = max_workers)

TempDirsReady ==
  /\ SetupComplete
  /\ pc' = "submit"
  /\ UNCHANGED <<cfgVars, poolVars, dirVars, gitVars, stack, submitted, preDone,
                 yielded, cur, lockVar, changes, idx, e_stdout, exc, exitCode,
                 outVars, histVars>>

NumThreads == Cardinality({w \in Threads : wpc[w] # "nothread"})

\* lines 99-100: executor.submit queues the work item and starts a worker
\* thread while fewer than max_workers exist
Submit ==
  /\ pc = "submit"
  /\ submitted < NumPackages
  /\ LET p == submitted + 1 IN
       /\ queue' = Append(queue, p)
       /\ fstate' = [fstate EXCEPT ![p] = "PENDING"]
       /\ submitted' = p
       /\ wpc' = IF NumThreads < max_workers
                   THEN [wpc EXCEPT ![NumThreads] = "idle"]
                   ELSE wpc
  /\ UNCHANGED <<cfgVars, result, wpkg, shutdownFlag, completed, dirVars,
                 gitVars, pc, stack, preDone, yielded, cur, lockVar, changes,
                 idx, e_stdout, exc, exitCode, outVars, histVars>>

\* line 102: as_completed(updates) first notes the futures already finished
\* (completed holds the finished futures not yet yielded, oldest first)
AsCompleted ==
  /\ pc = "submit"
  /\ submitted = NumPackages
  /\ preDone' = {completed[k] : k \in 1..Len(completed)}
  /\ pc' = "wait"
  /\ UNCHANGED <<cfgVars, poolVars, dirVars, gitVars, stack, submitted,
                 yielded, cur, lockVar, changes, idx, e_stdout, exc, exitCode,
                 outVars, histVars>>

\* ---------------------------------------------------------- worker threads
LockAcquirableNoBlock(w) == TRUE
\* line 27: lock.acquire() blocks while the lock is held
LockAcquirable(w) == ~locked[w]

\* lines 24-32 once the lock, if one is needed, can be taken: the lock is
\* acquired, package['thread'] is set and the update script starts
StartScript(w, p) ==
  /\ IF CommitApplies(p)
       THEN /\ locked' = [locked EXCEPT ![w] = TRUE]
            /\ thread' = [thread EXCEPT ![p] = w]
            /\ acquired' = [acquired EXCEPT ![p] = @ + 1]
       ELSE UNCHANGED <<locked, thread, acquired>>
  /\ started' = started \cup {p}
  /\ wpc' = [wpc EXCEPT ![w] = "running"]

\* the worker takes the next work item (a cancelled future is skipped) and
\* calls run_update_script, which starts the script or blocks at line 27
WorkerTake(w) ==
  /\ wpc[w] = "idle"
  /\ queue # <<>>
  /\ LET p == Head(queue) IN
       /\ queue' = Tail(queue)
       /\ IF fstate[p] = "CANCELLED"
            THEN UNCHANGED <<fstate, wpc, wpkg, locked, thread, acquired, started>>
            ELSE /\ fstate' = [fstate EXCEPT ![p] = "RUNNING"]
                 /\ wpkg' = [wpkg EXCEPT ![w] = p]
                 /\ IF CommitApplies(p) /\ ~LockAcquirable(w)
                      THEN /\ wpc' = [wpc EXCEPT ![w] = "blocked"]
                           /\ UNCHANGED <<locked, thread, acquired, started>>
                      ELSE StartScript(w, p)
  /\ UNCHANGED <<cfgVars, result, shutdownFlag, completed, worktree, gitVars,
                 mainVars, outVars, released, recordHistory, runningAtFail>>

\* line 27 returns: the coordinator released the lock the worker waited for
LockAcquire(w) ==
  /\ wpc[w] = "blocked"
  /\ LockAcquirable(w)
  /\ StartScript(w, wpkg[w])
  /\ UNCHANGED <<cfgVars, queue, fstate, result, wpkg, shutdownFlag, completed,
                 worktree, gitVars, mainVars, outVars, released, recordHistory,
                 runningAtFail>>

\* line 32: the update script exits; the future gets its result or exception
ScriptExit(w) ==
  /\ wpc[w] = "running"
  /\ LET p == wpkg[w] IN
       /\ \E o \in updateScript[p] : result' = [result EXCEPT ![p] = o]
       /\ fstate' = [fstate EXCEPT ![p] = "FINISHED"]
       /\ completed' = Append(completed, p)
  /\ wpc' = [wpc EXCEPT ![w] = "idle"]
  /\ wpkg' = [wpkg EXCEPT ![w] = NoPackage]
  /\ UNCHANGED <<cfgVars, queue, shutdownFlag, dirVars, gitVars, mainVars,
                 outVars, histVars>>

\* ------------------------------------------------- main: the merge loop
NextCompletedOrHandled == {p \in Packages : fstate[p] = "FINISHED"}
\* as_completed yields the futures that were already finished when it was
\* called in no particular order, then the others as they finish
NextCompleted ==
  IF preDone # {}
    THEN preDone
    ELSE IF completed # <<>> THEN {Head(completed)} ELSE {}

\* history only: the packages whose update script is running when an
\* exception leaves the loop of line 102 (which happens once in a run)
ObserveFailure ==
  runningAtFail' = IF recordHistory
                     THEN {q \in started : fstate[q] = "RUNNING"}
                     ELSE runningAtFail

\* lines 74-76, with `pending` the exception in flight ("none" if none) and
\* `lock` the local of line 58 (NoThread while unbound): releasing an unbound
\* local raises UnboundLocalError in place of what was in flight. Then
\* merge_changes returns to the loop of line 102 or the exception leaves it
FinallyClause(p, lock, pending) ==
  /\ IF CommitApplies(p)
       THEN IF lock = NoThread
              THEN /\ exc' = "UnboundLocalError"
                   /\ UNCHANGED <<locked, released>>
              ELSE /\ locked' = [locked EXCEPT ![lock] = FALSE]
                   /\ released' = [released EXCEPT ![p] = @ + 1]
                   /\ exc' = pending
       ELSE /\ exc' = pending
            /\ UNCHANGED <<locked, released>>
  /\ pc' = IF exc' = "none" THEN "wait" ELSE "shutdown"
  /\ IF exc' = "none" THEN UNCHANGED runningAtFail ELSE ObserveFailure
  /\ cur' = NoPackage
  /\ lockVar' = NoThread
  /\ changes' = <<>>
  /\ idx' = 0
  /\ e_stdout' = <<>>

CoordinatorIdleOrMerging == pc \in {"wait", "git_add", "git_commit", "cherry_pick"}
\* line 102: the loop asks as_completed for the next future only when the
\* call of merge_changes for the previous one (line 105) has returned
CoordinatorIdle == pc = "wait"

\* lines 102-105 and 55-59 down to json.loads (line 46)
MergeChanges(p) ==
  /\ CoordinatorIdle
  /\ p \in NextCompleted
  /\ yielded' = yielded \cup {p}
  /\ preDone' = preDone \ {p}
  /\ completed' = SelectSeq(completed, LAMBDA q : q # p)
  /\ IF ~result[p].ok
       THEN \* future.result() re-raises the CalledProcessError of line 32
            /\ e_stdout' = <<result[p].stdout>>
            /\ cur' = p
            /\ pc' = "except"
            /\ UNCHANGED <<lockVar, changes, idx, exc, locked, released,
                           runningAtFail>>
       ELSE IF ~CommitApplies(p)
         THEN /\ cur' = p
              /\ pc' = "done"
              /\ UNCHANGED <<lockVar, changes, idx, e_stdout, exc, locked,
                             released, runningAtFail>>
         ELSE IF result[p].stdout.parses
           THEN /\ cur' = p
                /\ lockVar' = thread[p]
                /\ changes' = result[p].stdout.changes
                /\ idx' = 1
                /\ pc' = IF Len(result[p].stdout.changes) = 0
                           THEN "done" ELSE "git_add"
                /\ UNCHANGED <<e_stdout, exc, locked, released, runningAtFail>>
           ELSE \* json.loads raises, no except clause matches
                FinallyClause(p, thread[p], "JSONDecodeError")
  /\ UNCHANGED <<cfgVars, queue, fstate, result, wpc, wpkg, shutdownFlag,
                 worktree, thread, gitVars, stack, submitted, exitCode, outVars,
                 started, acquired, recordHistory>>

\* a git command run with check=True and no captured output fails:
\* CalledProcessError whose stdout is None
GitFails ==
  /\ e_stdout' = <<>>
  /\ pc' = "except"

\* line 48: git add <files> in the worktree
GitAdd ==
  /\ pc = "git_add"
  /\ gitCalls' = gitCalls \cup {"add"}
  /\ \/ /\ staged' = [staged EXCEPT ![lockVar] = @ \cup changes[idx].files]
        /\ pc' = "git_commit"
        /\ UNCHANGED e_stdout
     \/ /\ GitFails
        /\ UNCHANGED staged
  /\ UNCHANGED <<cfgVars, poolVars, dirVars, branchLog, mainLog, stack,
                 submitted, preDone, yielded, cur, lockVar, changes, idx, exc,
                 exitCode, outVars, histVars>>

\* what is left staged once a commit has been made
CommittedIndex(w) == {}

\* lines 49-50: git commit -m <message> in the worktree
GitCommit ==
  /\ pc = "git_commit"
  /\ gitCalls' = gitCalls \cup {"commit"}
  /\ \/ /\ branchLog' = [branchLog EXCEPT ![lockVar] =
                           Append(@, [message |-> CommitMessage(changes[idx]),
                                      files |-> staged[lockVar],
                                      package |-> cur])]
        /\ staged' = [staged EXCEPT ![lockVar] = CommittedIndex(lockVar)]
        /\ pc' = "cherry_pick"
        /\ UNCHANGED e_stdout
     \/ /\ GitFails
        /\ UNCHANGED <<staged, branchLog>>
  /\ UNCHANGED <<cfgVars, poolVars, dirVars, mainLog, stack, submitted, preDone,
                 yielded, cur, lockVar, changes, idx, exc, exitCode, outVars,
                 histVars>>

BranchRoot(w) == branchLog[w][1]
\* the commit the name of the worktree's branch resolves to: its tip
BranchTip(w) == Last(branchLog[w])

\* line 51: git cherry-pick <branch> reapplies the branch's tip commit onto
\* the checkout the run started from; then the loop goes to the next change
CherryPick ==
  /\ pc = "cherry_pick"
  /\ gitCalls' = gitCalls \cup {"cherry-pick"}
  /\ \/ /\ mainLog' = Append(mainLog, BranchTip(lockVar))
        /\ idx' = idx + 1
        /\ pc' = IF idx = Len(changes) THEN "done" ELSE "git_add"
        /\ UNCHANGED e_stdout
     \/ /\ GitFails
        /\ UNCHANGED <<mainLog, idx>>
  /\ UNCHANGED <<cfgVars, poolVars, dirVars, staged, branchLog, stack,
                 submitted, preDone, yielded, cur, lockVar, changes, exc,
                 exitCode, outVars, histVars>>

\* line 60, then the finally clause
ReportDone ==
  /\ pc = "done"
  /\ report' = [report EXCEPT ![cur] = "DONE"]
  /\ FinallyClause(cur, lockVar, "none")
  /\ UNCHANGED <<cfgVars, poolVars, worktree, thread, gitVars, stack, submitted,
                 preDone, yielded, exitCode, logfile, started, acquired,
                 recordHistory>>

\* lines 61-73, then the finally clause: the ERROR banner; e.stdout.decode
\* raises AttributeError when e.stdout is None; otherwise the log file is
\* written and, without --keep-going, sys.exit(1) raises SystemExit
ReportError ==
  /\ pc = "except"
  /\ report' = [report EXCEPT ![cur] = "ERROR"]
  /\ IF e_stdout = <<>>
       THEN /\ UNCHANGED logfile
            /\ FinallyClause(cur, lockVar, "AttributeError")
       ELSE /\ logfile' = [logfile EXCEPT ![cur] = e_stdout]
            /\ FinallyClause(cur, lockVar,
                             IF keep_going THEN "none" ELSE "SystemExit")
  /\ UNCHANGED <<cfgVars, poolVars, worktree, thread, gitVars, stack, submitted,
                 preDone, yielded, exitCode, started, acquired, recordHistory>>

\* line 102: every future has been yielded, the loop ends
LoopEnd ==
  /\ pc = "wait"
  /\ yielded = Packages
  /\ pc' = "shutdown"
  /\ UNCHANGED <<cfgVars, poolVars, dirVars, gitVars, stack, submitted, preDone,
                 yielded, cur, lockVar, changes, idx, e_stdout, exc, exitCode,
                 outVars, histVars>>

\* ------------------------------------------------ main: leaving the `with`
JoinedWithoutWaiting == TRUE
\* a worker returns once the pool is shut down and its queue is empty
Joined == queue = <<>> /\ \A w \in Threads : wpc[w] \in {"nothread", "idle"}

\* line 93: ThreadPoolExecutor.__exit__ is shutdown(wait=True): the queued
\* work items are not cancelled, the workers drain the queue and return, and
\* the coordinator joins every one of them
ExecutorShutdown ==
  /\ pc = "shutdown"
  /\ Joined
  /\ shutdownFlag' = TRUE
  /\ wpc' = [w \in Threads |-> IF wpc[w] = "nothread" THEN "nothread" ELSE "exited"]
  /\ pc' = "teardown"
  /\ UNCHANGED <<cfgVars, queue, fstate, result, wpkg, completed, dirVars,
                 gitVars, stack, submitted, preDone, yielded, cur, lockVar,
                 changes, idx, e_stdout, exc, exitCode, outVars, histVars>>

\* lines 41-43 for the worktree of thread w when `failed` worktrees of the
\* stack have been left behind before it: a failed `git worktree remove`
\* leaves checkout and branch, a failed `git branch -D` leaves the branch
LeftBy(o) ==
  IF o = "ok" THEN "removed"
  ELSE IF o = "remove fails" THEN "left" ELSE "branch left"

\* lines 107-109 and 123-129, given what left the `with` block: sys.exit()
\* carries no code, so the process exits 0; SystemExit(1) exits 1; any other
\* exception is not caught and the interpreter exits 1
ExitCodeFor(raised) == IF raised = "none" THEN 0 ELSE 1

\* line 93: ExitStack.__exit__ unwinds the worktrees, last one first. An
\* exception is thrown into make_worktree at its yield (line 41), which has
\* no try/finally: lines 42-43 run only while nothing has been raised. `k`
\* worktrees are removed before outcome `o` of the next one. Then lines
\* 107-109 and 123-129: the process exits, and after sys.exit() or
\* sys.exit(1) the handler first cancels the futures still pending
ExitStackClose ==
  /\ pc = "teardown"
  /\ IF exc # "none" \/ stack = 0
       THEN /\ worktree' = [w \in Threads |->
                              IF w < stack THEN "left" ELSE worktree[w]]
            /\ UNCHANGED <<gitCalls, exc>>
       ELSE \E k \in 0..(stack - 1), o \in {"ok", "remove fails", "branch -D fails"} :
              /\ o = "ok" => k = stack - 1
              /\ worktree' = [w \in Threads |->
                   IF w >= stack THEN worktree[w]
                   ELSE IF w > stack - 1 - k THEN "removed"
                   ELSE IF w = stack - 1 - k THEN LeftBy(o)
                   ELSE "left"]
              /\ gitCalls' = gitCalls \cup {"worktree remove"}
                   \cup (IF k = 0 /\ o = "remove fails" THEN {} ELSE {"branch -D"})
              /\ exc' = IF o = "ok" THEN "none" ELSE "CalledProcessError"
  /\ stack' = 0
  /\ pc' = "exited"
  /\ exitCode' = ExitCodeFor(exc')
  /\ fstate' = IF exc' \in {"none", "SystemExit"}
                 THEN [p \in Packages |->
                         IF fstate[p] = "PENDING" THEN "CANCELLED" ELSE fstate[p]]
                 ELSE fstate
  /\ UNCHANGED <<cfgVars, queue, result, wpc, wpkg, shutdownFlag, completed,
                 locked, thread, staged, branchLog, mainLog, submitted, preDone,
                 yielded, cur, lockVar, changes, idx, e_stdout, outVars,
                 histVars>>

\* -------------------------------------------------------- specification
Next ==
  \/ MakeWorktree
  \/ TempDirsReady
  \/ Submit
  \/ AsCompleted
  \/ \E w \in Threads : WorkerTake(w)
  \/ \E w \in Threads : LockAcquire(w)
  \/ \E w \in Threads : ScriptExit(w)
  \/ \E p \in Packages : MergeChanges(p)
  \/ GitAdd
  \/ GitCommit
  \/ CherryPick
  \/ ReportDone
  \/ ReportError
  \/ LoopEnd
  \/ ExecutorShutdown
  \/ ExitStackClose

Spec == Init /\ [][Next]_vars
\* the same program, with runningAtFail recorded
SpecHistory == InitHistory /\ [][Next]_vars
\* the same program on the example package list
SpecExample == InitExample /\ [][Next]_vars
\* the same program when every update script and git command terminates and
\* the threads are scheduled fairly: a step that can be taken is taken
SpecFair == Init /\ [][Next]_vars /\ WF_vars(Next)

\* ---------------------------------------------------------------- claims
\* package p is inside the worktree of thread w: its update script is running
\* there, or it has finished and merge_changes has not released the lock
InWorkspace(p, w) ==
  \/ wpc[w] = "running" /\ wpkg[w] = p /\ CommitApplies(p)
  \/ thread[p] = w /\ fstate[p] = "FINISHED" /\ released[p] = 0
Inside(w) == {p \in Packages : InWorkspace(p, w)}

\* the commits package p made on the branch of its worktree, and those of
\* package p on the main line, oldest first
PackageCommits(p) ==
  IF thread[p] = NoThread THEN <<>>
  ELSE SelectSeq(branchLog[thread[p]], LAMBDA c : c.package = p)
MainCommits(p) == SelectSeq(mainLog, LAMBDA c : c.package = p)
Handled(p) == p \in yielded /\ cur # p
\* an exception raised while handling a package has left the loop of line 102
Aborted ==
  exc \in {"SystemExit", "UnboundLocalError", "JSONDecodeError", "AttributeError"}

\* C1: with --commit and pool size N, at most one package is inside any one
\* worktree and at most N packages are inside worktrees altogether
C1_WorkspaceExclusive ==
  commit =>
    /\ \A w \in Threads : Cardinality(Inside(w)) <= 1
    /\ Cardinality(UNION {Inside(w) : w \in Threads}) <= max_workers
    /\ \A w \in Threads : Inside(w) # {} => locked[w] /\ w \in ThreadNames

\* a worker waits at line 27 while the package it ran before is still inside
C1_Witness ==
  \E w \in Threads : wpc[w] = "blocked" /\ Cardinality(Inside(w)) = 1

\* C2: a package acquires its worktree's lock at most once, and once
\* merge_changes has handled the package the lock has been released exactly
\* once, whatever the outcome
C2_GuardReleasedOnce ==
  \A p \in Packages :
    /\ acquired[p] <= 1
    /\ released[p] <= acquired[p]
    /\ Handled(p) => released[p] = acquired[p]

\* C3: without --keep-going, once the coordinator has handled the first
\* failure (sys.exit(1) raised) no update script that had not been started
\* is started any more
C3_NoStartAfterFailure ==
  [][(~keep_going /\ Aborted) => started' \subseteq started]_vars

\* C4: without --keep-going, when the run has exited every package whose
\* update script was running when the first failure was handled has finished
\* and has been handled by merge_changes: reported, and its lock released
C4_RunningResultsProcessed ==
  (~keep_going /\ pc = "exited") =>
    \A p \in runningAtFail :
      /\ fstate[p] = "FINISHED"
      /\ report[p] \in {"DONE", "ERROR"}
      /\ released[p] = acquired[p]

\* C5: with --keep-going, when a run in which nothing but update scripts
\* failed (no output that does not parse, no git command that fails) has
\* exited, every package's update script has been run and every package has
\* been reported DONE or ERROR
C5_KeepGoingHandlesAll ==
  (/\ keep_going
   /\ pc = "exited"
   /\ submitted = NumPackages
   /\ exc \notin {"JSONDecodeError", "AttributeError", "CalledProcessError"}) =>
    \A p \in Packages : p \in started /\ report[p] \in {"DONE", "ERROR"}

\* C6: a run in which some package was reported as failed exits non-zero
\* (exit code 0 only if every package succeeded)
C6_FailureExitsNonZero ==
  (pc = "exited" /\ \E p \in Packages : report[p] = "ERROR") => exitCode # 0

\* C7: without --commit no worktree is created, no lock is acquired and no
\* git command is run
C7_NoCommitNoGit ==
  ~commit =>
    /\ gitCalls = {}
    /\ mainLog = <<>>
    /\ \A w \in Threads :
         worktree[w] = "none" /\ ~locked[w] /\ branchLog[w] = <<>> /\ staged[w] = {}
    /\ \A p \in Packages : acquired[p] = 0 /\ thread[p] = NoThread

\* a run without --commit has ended with a package that supports commit
\* reported DONE and another reported ERROR
C7_Witness ==
  /\ ~commit
  /\ pc = "exited"
  /\ \E p, q \in Packages :
       /\ "commit" \in supportedFeatures[p]
       /\ report[p] = "DONE"
       /\ report[q] = "ERROR"

\* C8: a committed package reported DONE has made, on the branch of its
\* worktree, one commit per Change Record it printed, in the records' order,
\* each holding exactly the record's files, with the message
\* '<attrPath>: <oldVersion> → <newVersion>'
C8_OneCommitPerRecord ==
  \A p \in Packages :
    (CommitApplies(p) /\ report[p] = "DONE") =>
      LET recs == result[p].stdout.changes
          made == PackageCommits(p)
      IN
        /\ Len(made) = Len(recs)
        /\ \A j \in 1..Len(recs) :
             /\ made[j].files = recs[j].files
             /\ made[j].message =
                  recs[j].attrPath \o ": " \o recs[j].oldVersion
                    \o " → " \o recs[j].newVersion

\* a package that printed MaxRecords records is DONE in a worktree another
\* package has committed in before
C8_Witness ==
  \E p \in Packages :
    /\ CommitApplies(p)
    /\ report[p] = "DONE"
    /\ Len(result[p].stdout.changes) = MaxRecords
    /\ Len(branchLog[thread[p]]) > MaxRecords

\* C9 as claimed: a commit of a package is on the main line only once all of
\* the package's Change Records have been committed on its branch
C9_IntegrationAfterAllCommits ==
  \A p \in Packages :
    MainCommits(p) # <<>> =>
      Len(PackageCommits(p)) = Len(result[p].stdout.changes)

\* C9 as amended: every commit of a package is reapplied onto the main line
\* right after it is made and before the next record is staged, so the main
\* line holds the package's commits in record order, lagging the branch by
\* the tip commit at most, and all of them once the package is DONE
C9_CherryPickAfterEachCommit ==
  \A p \in Packages :
    LET onBranch == PackageCommits(p)
        onMain == MainCommits(p)
    IN /\ Len(onMain) <= Len(onBranch)
       /\ Len(onBranch) <= Len(onMain) + 1
       /\ \A j \in 1..Len(onMain) : onMain[j] = onBranch[j]
       /\ (cur = p /\ pc \in {"git_add", "git_commit"}) =>
            /\ Len(onBranch) = idx - 1
            /\ onMain = onBranch
       /\ (CommitApplies(p) /\ report[p] = "DONE") =>
            /\ onMain = onBranch
            /\ Len(onMain) = Len(result[p].stdout.changes)

\* the second record of a package is about to be staged and the commit of its
\* first record is already on the main line, behind another package's commits
C9_Witness ==
  /\ pc = "git_add"
  /\ idx = 2
  /\ Len(MainCommits(cur)) = 1
  /\ Len(mainLog) > 1

\* C10: with --commit and pool size N, a package is submitted only when the
\* N worktrees (one per thread name) exist, and when a worktree could not be
\* created no package is ever submitted or run
C10_WorktreesBeforeSubmit ==
  commit =>
    /\ (\E w \in ThreadNames : worktree[w] = "none") =>
         /\ submitted = 0
         /\ queue = <<>>
         /\ started = {}
         /\ \A p \in Packages : fstate[p] = "NONE"
    /\ (submitted > 0 /\ pc \notin {"teardown", "exited"}) =>
         {w \in Threads : worktree[w] = "created"} = ThreadNames
    /\ \A w \in Threads \ ThreadNames : worktree[w] = "none"

\* the first package has just been submitted to a pool of MaxWorkers threads
C10_Witness ==
  /\ commit
  /\ max_workers = MaxWorkers
  /\ submitted = 1
  /\ pc = "submit"
  /\ \A w \in ThreadNames : worktree[w] = "created"

\* C11: when a run has ended normally or was aborted by sys.exit(1) after
\* the first failure, every worktree that was created has been removed
\* (git worktree remove) and its branch deleted (git branch -D)
C11_WorktreesRemoved ==
  (pc = "exited" /\ exc \in {"none", "SystemExit"}) =>
    \A w \in Threads : worktree[w] \in {"none", "removed"}

\* a committed package whose update script succeeded with output that does
\* not parse as Change Records has been passed to merge_changes
UnparsableHandled(p) ==
  /\ Handled(p)
  /\ CommitApplies(p)
  /\ result[p].ok
  /\ ~result[p].stdout.parses

\* C12: a committed package whose successful output does not parse is
\* reported as failed (ERROR banner and log file) and no exception leaves the
\* run because of it: with --keep-going the remaining packages are handled
C12_ParseFailureReported ==
  \A p \in Packages :
    UnparsableHandled(p) =>
      /\ report[p] = "ERROR"
      /\ logfile[p] # <<>>
      /\ exc # "JSONDecodeError"
      /\ (keep_going /\ pc = "exited") =>
           \A q \in Packages : report[q] \in {"DONE", "ERROR"}

\* the update script of package p succeeded and merge_changes has reported the
\* package as failed: a git add, git commit or git cherry-pick step failed
MergeStepFailed(p) == Handled(p) /\ result[p].ok /\ report[p] = "ERROR"

\* C13: a package failed by a git step is reported like an execution failure:
\* the ERROR banner is followed by the log file being written, the handling
\* raises no further error and --keep-going decides whether the run goes on;
\* and a failed git step is never retried (nothing more is committed)
C13_GitFailureReported ==
  \A p \in Packages :
    MergeStepFailed(p) =>
      /\ logfile[p] # <<>>
      /\ exc \notin {"AttributeError", "UnboundLocalError"}
      /\ keep_going => exc = "none"
      /\ Len(PackageCommits(p)) < Len(result[p].stdout.changes)
           \/ Len(MainCommits(p)) < Len(result[p].stdout.changes)

\* C14: on the example list [a, b] (a supports commit and prints 3 Change
\* Records, b exits 1), with --commit, one worker and no --keep-going, every
\* run in which the git commands succeed ends with a's 3 commits on the main
\* line, b's log file holding b's captured output, and a non-zero exit code
C14_ExampleRun ==
  (/\ ~keep_going
   /\ pc = "exited"
   /\ exc \notin {"AttributeError", "CalledProcessError"}) =>
    /\ Len(MainCommits(1)) = 3
    /\ logfile[2] = <<result[2].stdout>>
    /\ exitCode # 0

\* C15: the package a step passes to merge_changes has finished its update
\* script, and of the finished packages not yet handled it is the one that
\* finished first
C15_HandledInCompletionOrder ==
  [][\A p \in Packages :
       (p \in yielded' /\ p \notin yielded) =>
         /\ fstate[p] = "FINISHED"
         /\ p = Head(completed)]_vars

\* C16: when every update script and git command terminates and scheduling
\* is fair, every run ends: the pool's workers have returned and the process
\* has exited
C16_RunTerminates ==
  <>(pc = "exited" /\ \A w \in Threads : wpc[w] \in {"nothread", "exited"})

\* where a package stands: dispatched by executor.submit, running once its
\* update script has been started, and succeeded or failed once merge_changes
\* has reported it DONE or ERROR
PackageState(p) ==
  IF report[p] = "DONE" THEN "SUCCEEDED"
  ELSE IF report[p] = "ERROR" THEN "FAILED"
  ELSE IF p \in started THEN "RUNNING"
  ELSE IF fstate[p] # "NONE" THEN "DISPATCHED"
  ELSE "NONE"

NextStates(s) ==
  IF s = "NONE" THEN {"NONE", "DISPATCHED"}
  ELSE IF s = "DISPATCHED" THEN {"DISPATCHED", "RUNNING"}
  ELSE IF s = "RUNNING" THEN {"RUNNING", "SUCCEEDED", "FAILED"}
  ELSE {s}

\* C17: a package moves DISPATCHED -> RUNNING -> SUCCEEDED or FAILED and in
\* no other way, SUCCEEDED and FAILED are never left, and a package is passed
\* to merge_changes only when its update script has finished and only if it
\* has not been passed to it before
C17_PackageLifecycle ==
  [][\A p \in Packages :
       /\ PackageState(p)' \in NextStates(PackageState(p))
       /\ MergeChanges(p) => (p \notin yielded /\ fstate[p] = "FINISHED")
       /\ PackageState(p)' \in {"SUCCEEDED", "FAILED"} =>
            (p \in yielded' /\ fstate'[p] = "FINISHED")]_vars

\* a run has ended with one package succeeded and another failed, each
\* handled once
C17_Witness ==
  /\ pc = "exited"
  /\ \E p, q \in Packages :
       /\ PackageState(p) = "SUCCEEDED"
       /\ PackageState(q) = "FAILED"
       /\ {p, q} \subseteq yielded

\* a teardown step has run for the worktree of thread w
TornDown(w) == worktree[w] \in {"removed", "left", "branch left"}

\* C18: on every way out of the run, when the teardown of the worktrees
\* begins the pool is shut down: every worker has returned, nothing is
\* queued, and no update script is running or still to be started
C18_PoolDownBeforeTeardown ==
  (pc \in {"teardown", "exited"} \/ \E w \in Threads : TornDown(w)) =>
    /\ shutdownFlag
    /\ queue = <<>>
    /\ \A w \in Threads : wpc[w] \in {"nothread", "exited"}
    /\ \A p \in Packages : fstate[p] \notin {"PENDING", "RUNNING"}

\* a run aborted by an exception while update scripts were queued has ended:
\* they all ran before the worktrees were given up
C18_Witness ==
  /\ pc = "exited"
  /\ exc # "none"
  /\ \E w \in Threads : TornDown(w)
  /\ started = Packages
  /\ yielded # Packages

\* the packages inside commit_changes: passed to merge_changes with parsed
\* Change Records, and neither reported nor failed yet
InCommitChanges ==
  {p \in yielded : /\ CommitApplies(p)
                   /\ result[p].ok
                   /\ result[p].stdout.parses
                   /\ report[p] = "none"
                   /\ released[p] = 0}

\* the commits of a package occupy consecutive positions of the main line
Contiguous(log) ==
  \A i, k \in 1..Len(log) :
    (i < k /\ log[i].package = log[k].package) =>
      \A j \in i..k : log[j].package = log[i].package

\* C19: at most one package is inside commit_changes at any time, it is the
\* one the coordinator is handling, and the commits of each package form one
\* contiguous block of the main line
C19_MergesSerialized ==
  /\ Cardinality(InCommitChanges) <= 1
  /\ InCommitChanges \subseteq {cur}
  /\ Contiguous(mainLog)
  /\ pc \in {"git_add", "git_commit", "cherry_pick"} => InCommitChanges = {cur}

\* the coordinator is committing a package's second record, the first being
\* on the main line, while another package's update script runs in its own
\* worktree
C19_Witness ==
  /\ pc = "git_commit"
  /\ idx = 2
  /\ Len(MainCommits(cur)) = 1
  /\ \E w \in Threads :
       wpc[w] = "running" /\ CommitApplies(wpkg[w]) /\ w # lockVar

====
